---- MODULE Spec2Model ----
(***************************************************************************)
(* A model of the tatorte-classifier repository:                           *)
(*   - the data cleaning and balancing of the training pipeline            *)
(*     (tatorte_classifier/machine_learning/train_model.py), and           *)
(*   - the batch import script (production_api/app/import_data.py).        *)
(*                                                                         *)
(* numpy arrays are sequences.  numpy indexes from 0 and the model from 1, *)
(* so every index array of the model is the numpy one shifted by one.      *)
(* A numpy call that raises (np.vectorize applied to an array of size 0    *)
(* without otypes raises ValueError) ends the run in the state "raised".   *)
(***************************************************************************)
EXTENDS Integers, Sequences, FiniteSets

(***************************************************************************)
(* Bounds of the model.                                                    *)
(***************************************************************************)
\* the longest dataset handed to train_model
MaxLen == 2
\* the largest values_per_category handed to balance_data
MaxK == 4

(***************************************************************************)
(* Texts.  A text is a string; Chars gives its characters, since the       *)
(* characters of a string value cannot be indexed directly.                *)
(***************************************************************************)
Chars(s) ==
    CASE s = "Brand" -> <<"B","r","a","n","d">>
      [] s = "Verkehrskontrolle" ->
            <<"V","e","r","k","e","h","r","s","k","o","n","t","r","o","l","l","e">>
      [] s = "VERKEHRSKONTROLLE eingebrochen" ->
            <<"V","E","R","K","E","H","R","S","K","O","N","T","R","O","L","L","E"," ",
              "e","i","n","g","e","b","r","o","c","h","e","n">>
      [] s = "ALKOHOL" -> <<"A","L","K","O","H","O","L">>
      [] s = "Verkehrskontrolle Alkohol" ->
            <<"V","e","r","k","e","h","r","s","k","o","n","t","r","o","l","l","e"," ",
              "A","l","k","o","h","o","l">>
      [] s = "Dienstagmorgen" ->
            <<"D","i","e","n","s","t","a","g","m","o","r","g","e","n">>
      [] s = "Eingebrochen Fahrrad" ->
            <<"E","i","n","g","e","b","r","o","c","h","e","n"," ",
              "F","a","h","r","r","a","d">>
      [] s = "Fahrer" -> <<"F","a","h","r","e","r">>
      [] s = "verkehrskontroll" ->
            <<"v","e","r","k","e","h","r","s","k","o","n","t","r","o","l","l">>
      [] s = "eingebroch" -> <<"e","i","n","g","e","b","r","o","c","h">>
      [] s = "alkohol" -> <<"a","l","k","o","h","o","l">>
      [] s = "dienstagmorg" -> <<"d","i","e","n","s","t","a","g","m","o","r","g">>
      [] s = "fahrrad" -> <<"f","a","h","r","r","a","d">>

\* the texts the inputs are drawn from
TextPool ==
    { "Brand", "Verkehrskontrolle", "VERKEHRSKONTROLLE eingebrochen", "ALKOHOL",
      "Verkehrskontrolle Alkohol", "Dienstagmorgen", "Eingebrochen Fahrrad",
      "Fahrer" }

\* the category codes: 1 Feuer, 2 Mord, 3 Ueberfall, 4 Unfall, 5 Drogen
Categories == 1..5

UpperCase ==
    <<"A","B","C","D","E","F","G","H","I","J","K","L","M",
      "N","O","P","Q","R","S","T","U","V","W","X","Y","Z">>

LowerCase ==
    <<"a","b","c","d","e","f","g","h","i","j","k","l","m",
      "n","o","p","q","r","s","t","u","v","w","x","y","z">>

\* str.lower() with the case conversion left out
LowerNoFold(cs) == cs

\* str.lower() on the characters of a text
Lower(cs) ==
    [i \in 1..Len(cs) |->
        IF \E j \in 1..Len(UpperCase) : UpperCase[j] = cs[i]
        THEN LowerCase[CHOOSE j \in 1..Len(UpperCase) : UpperCase[j] = cs[i]]
        ELSE cs[i]]

\* Python's `sub in cs` on character sequences
In(sub, cs) ==
    \E i \in 1..(Len(cs) - Len(sub) + 1) : SubSeq(cs, i, i + Len(sub) - 1) = sub

\* the keywords of clean_data
Keywords == { "verkehrskontroll", "eingebroch", "alkohol", "dienstagmorg", "fahrrad" }

\* keyword in text.lower(), computed once for every keyword and text of the pool
ContainTable ==
    [kw \in Keywords |-> { t \in TextPool : In(Chars(kw), Lower(Chars(t))) }]

\* lambda x: keyword in x.lower()
StrContain(keyword, text) == text \in ContainTable[keyword]

(***************************************************************************)
(* numpy helpers.                                                          *)
(***************************************************************************)
\* the elements of a sequence
Range(s) == { s[i] : i \in 1..Len(s) }

\* the ascending sequence of the elements of a finite set of integers
RECURSIVE SortedSeq(_)
SortedSeq(S) ==
    IF S = {} THEN <<>>
    ELSE LET m == CHOOSE e \in S : \A f \in S : e <= f
         IN  <<m>> \o SortedSeq(S \ {m})

\* np.where(str_contain(x))[0]: the ascending indices of the texts that
\* contain the keyword
WhereContain(xs, keyword) ==
    SortedSeq({ i \in 1..Len(xs) : StrContain(keyword, xs[i]) })

\* np.where(y == c)[0]: the ascending indices of the labels equal to c
WhereEqual(ys, c) == SortedSeq({ i \in 1..Len(ys) : ys[i] = c })

\* np.intersect1d: the sorted common elements
Intersect1d(s, t) == SortedSeq(Range(s) \cap Range(t))

\* np.unique: the sorted distinct elements
Unique(a) == SortedSeq(Range(a))

\* np.delete that removes the elements before the given indices
NpDeleteShifted(a, idxs) ==
    LET drop == { i - 1 : i \in Range(idxs) }
        keep == SortedSeq({ i \in 1..Len(a) : i \notin drop })
    IN  [j \in 1..Len(keep) |-> a[keep[j]]]

\* np.delete(a, idxs): a copy of a without the elements at idxs
NpDelete(a, idxs) ==
    LET keep == SortedSeq({ i \in 1..Len(a) : i \notin Range(idxs) })
    IN  [j \in 1..Len(keep) |-> a[keep[j]]]

\* Python's seq[:stop]: a negative stop counts from the end
PySliceTo(s, stop) ==
    LET n == Len(s)
        e == IF stop < 0 THEN (IF n + stop < 0 THEN 0 ELSE n + stop)
             ELSE IF stop > n THEN n ELSE stop
    IN  SubSeq(s, 1, e)

\* np.vectorize(f)(a) without otypes raises ValueError on an array of size 0
VectorizeRaises(a) == Len(a) = 0

\* every order np.random.shuffle can leave the elements of S in
RECURSIVE Shuffles(_)
Shuffles(S) ==
    IF S = {} THEN { <<>> }
    ELSE UNION { { <<e>> \o p : p \in Shuffles(S \ {e}) } : e \in S }

(***************************************************************************)
(* State of the training pipeline (train_model: clean_data, balance_data). *)
(***************************************************************************)
VARIABLES
    pc,     \* "start", "cleaned", "balanced" or "raised" ("idle": not called)
    x0, y0, \* the texts and labels as the caller handed them in
    x, y,   \* the caller's arrays (clean_data writes into y in place)
    cx, cy, \* the arrays clean_data returned
    csrc,   \* for each returned record, its index in the input
    bx, by, \* the arrays balance_data returned
    k       \* the n_per_class balance_data was called with

pvars == <<pc, x0, y0, x, y, cx, cy, csrc, bx, by, k>>

\* State of the import script (import_data.py).
VARIABLES
    ipc,          \* "start", "loaded", "inserting", "done", "raised" ("idle": not run)
    X, Y,         \* the text array and the label array
    current_date, \* the timestamp string of the run
    data,         \* the records built
    batch_i,      \* the loop variable i of the insert loop
    calls         \* the record lists handed to insert_many, in call order

ivars == <<ipc, X, Y, current_date, data, batch_i, calls>>
vars == <<pvars, ivars>>

\* DataPreprocessor()(text): the external text cleaning, one text to one text
DataPreprocessor(text) == <<"preprocessed", text>>

\* _change_category without the condition on the text
ChangeCategoryAnyText(xs, ys, old_category, new_category, keyword) ==
    [j \in 1..Len(ys) |-> IF ys[j] = old_category THEN new_category ELSE ys[j]]

\* _change_category: y[where(condition(x)) & where(y == old)] = new, in place
ChangeCategory(xs, ys, old_category, new_category, keyword) ==
    LET idxs == Intersect1d(WhereContain(xs, keyword),
                            WhereEqual(ys, old_category))
    IN  [j \in 1..Len(ys) |-> IF j \in Range(idxs) THEN new_category ELSE ys[j]]

\* the drop that takes only the first index np.where finds
DropIdxsFirstMatch(xs, ys, keyword, category) ==
    LET idxs == WhereContain(xs, keyword)
        hit  == IF category # <<>>
                THEN Intersect1d(idxs, WhereEqual(ys, category[1]))
                ELSE idxs
    IN  SubSeq(hit, 1, IF Len(hit) > 0 THEN 1 ELSE 0)

\* the indices _drop_all_containing_keyword deletes; the optional category
\* is <<>> for None and <<c>> for the category c
DropIdxs(xs, ys, keyword, category) ==
    LET idxs == WhereContain(xs, keyword)
    IN  IF category # <<>>
        THEN Intersect1d(idxs, WhereEqual(ys, category[1]))
        ELSE idxs

\* the drop that deletes the found indices from x and the last ones from y
DropAllMisaligned(d, keyword, category) ==
    LET idxs == DropIdxs(d.x, d.y, keyword, category)
    IN  [x |-> NpDelete(d.x, idxs), y |-> SubSeq(d.y, 1, Len(d.y) - Len(idxs)),
         src |-> NpDelete(d.src, idxs)]

\* _drop_all_containing_keyword on the texts, the labels and the input indices
DropAllContainingKeyword(d, keyword, category) ==
    LET idxs == DropIdxs(d.x, d.y, keyword, category)
    IN  [x |-> NpDelete(d.x, idxs), y |-> NpDelete(d.y, idxs),
         src |-> NpDelete(d.src, idxs)]

\* the two relabelings in the other order
RelabelSwapped(xs, ys) ==
    ChangeCategory(xs, ChangeCategory(xs, ys, 4, 3, "eingebroch"),
                   5, 4, "verkehrskontroll")

\* the two relabelings of clean_data, as they leave the caller's label array
Relabel(xs, ys) ==
    ChangeCategory(xs, ChangeCategory(xs, ys, 5, 4, "verkehrskontroll"),
                   4, 3, "eingebroch")

\* the three drops of clean_data; dn is the dataset after n drops
Drops(d0) ==
    LET d1 == DropAllContainingKeyword(d0, "alkohol", <<>>)
        d2 == DropAllContainingKeyword(d1, "dienstagmorg", <<3>>)
        d3 == DropAllContainingKeyword(d2, "fahrrad", <<3>>)
    IN  <<d1, d2, d3>>

\* clean_data up to the text preprocessing: whether it raises, what it leaves
\* in the caller's label array, and the dataset it has reached
CleanRules(xs, ys) ==
    IF VectorizeRaises(xs)
    THEN [raised |-> TRUE, y |-> ys, out |-> [x |-> <<>>, y |-> <<>>, src |-> <<>>]]
    ELSE LET y2 == Relabel(xs, ys)
             ds == Drops([x |-> xs, y |-> y2, src |-> [i \in 1..Len(xs) |-> i]])
         IN  [raised |-> \E n \in 1..3 : VectorizeRaises(ds[n].x),
              y |-> y2, out |-> ds[3]]

\* clean_data(x, y)
CleanData ==
    /\ pc = "start"
    /\ LET r == CleanRules(x, y)
       IN  /\ y' = r.y
           /\ IF r.raised
              THEN /\ pc' = "raised"
                   /\ UNCHANGED <<cx, cy, csrc>>
              ELSE /\ pc' = "cleaned"
                   /\ cx' = [i \in 1..Len(r.out.x) |-> DataPreprocessor(r.out.x[i])]
                   /\ cy' = r.out.y
                   /\ csrc' = r.out.src
    /\ UNCHANGED <<x0, y0, x, bx, by, k, ivars>>

\* idxs[:n_per_class]: the slice that keeps the excess and deletes the rest
ExcessIdxsKept(idxs, n_per_class) == PySliceTo(idxs, n_per_class)

\* idxs[: (len(idxs) - n_per_class)]: the shuffled indices balance_data deletes
ExcessIdxs(idxs, n_per_class) == PySliceTo(idxs, Len(idxs) - n_per_class)

\* the loop of balance_data over the categories cats, every shuffle considered
RECURSIVE BalanceLoop(_, _, _)
BalanceLoop(d, cats, n_per_class) ==
    IF cats = <<>> THEN { d }
    ELSE LET i == Head(cats)
             idxs == WhereEqual(d.y, i)
         IN  UNION { LET del == ExcessIdxs(p, n_per_class)
                     IN  BalanceLoop([x |-> NpDelete(d.x, del), y |-> NpDelete(d.y, del)],
                                     Tail(cats), n_per_class)
                     : p \in Shuffles(Range(idxs)) }

\* balance_data(x, y, n_per_class) on the cleaned dataset
BalanceData ==
    /\ pc = "cleaned"
    /\ \E n \in (0 - 1)..MaxK :
         \E r \in BalanceLoop([x |-> cx, y |-> cy], Unique(cy), n) :
            /\ bx' = r.x
            /\ by' = r.y
            /\ k' = n
    /\ pc' = "balanced"
    /\ UNCHANGED <<x0, y0, x, y, cx, cy, csrc, ivars>>

(***************************************************************************)
(* The import script (import_data.py).                                     *)
(***************************************************************************)
\* the largest number of full batches in the array files
MaxBatches == 2
\* the number of input patterns the array files are filled with
MaxSeed == 2

\* the records of one insert_many call
BatchSize == 1000

\* the lengths of the array files: from empty to MaxBatches full batches and a
\* part of one, at, next to and halfway between the multiples of BatchSize
Sizes ==
    { q * BatchSize + r : q \in 0..MaxBatches,
                          r \in { 0, 1, BatchSize \div 2, BatchSize - 1 } }

\* An array element is <<kind, n>>: the text numbered n as a str, as its UTF-8
\* bytes, or as bytes that are no valid UTF-8.  An array holds one kind.
TextKinds == <<"str", "bytes", "badbytes">>

\* A label is held in tenths, so that 30 is 3.0 and 45 is 4.5.
LabelTenths == <<10, 20, 30, 40, 50, 45>>

\* the array files of length n filled with pattern seed
FileX(n, seed) == [j \in 1..n |-> <<TextKinds[(seed % 3) + 1], j>>]
FileY(n, seed) == [j \in 1..n |-> LabelTenths[((j * (seed + 1)) % 6) + 1]]

\* the timestamps datetime.now().strftime("%Y-%m-%d %H:%M:%S") can give
Timestamps == { "2019-06-01 12:00:00", "2019-06-01 12:00:01" }

\* convert_to_string: decode bytes as UTF-8, anything that fails passes through
convert_to_string(e) == IF e[1] = "bytes" THEN <<"str", e[2]>> ELSE e

\* int(y) that rounds to the nearest integer
PyIntRound(t) == (t + 5) \div 10

\* int(y) on a label in tenths: truncation towards zero
PyInt(t) == IF t >= 0 THEN t \div 10 ELSE 0 - ((0 - t) \div 10)

\* Python's seq[start:stop] for start, stop >= 0
PySlice(s, start, stop) ==
    LET n == Len(s)
        lo == IF start > n THEN n ELSE start
        hi == IF stop > n THEN n ELSE stop
    IN  SubSeq(s, lo + 1, hi)

\* X = np.load(..); X = np.vectorize(convert_to_string)(X); Y = np.load(..)
LoadData ==
    /\ ipc = "start"
    /\ IF VectorizeRaises(X)
       THEN /\ ipc' = "raised"
            /\ UNCHANGED X
       ELSE /\ ipc' = "loaded"
            /\ X' = [j \in 1..Len(X) |-> convert_to_string(X[j])]
    /\ UNCHANGED <<Y, current_date, data, batch_i, calls, pvars>>

\* the record of one (text, label) pair
Record(xj, yj, date) ==
    [data |-> xj, categories |-> <<PyInt(yj)>>,
     time_created |-> date, time_modified |-> date]

\* current_date = ...; data = [{...} for x, y in zip(X, Y)]; print(len(data))
BuildRecords ==
    /\ ipc = "loaded"
    /\ \E now \in Timestamps :
         /\ current_date' = now
         /\ data' = [j \in 1..(IF Len(X) < Len(Y) THEN Len(X) ELSE Len(Y)) |->
                        Record(X[j], Y[j], now)]
    /\ batch_i' = 1
    /\ ipc' = "inserting"
    /\ UNCHANGED <<X, Y, calls, pvars>>

\* the first and last record (from 0, last excluded) of the slice of call j
BatchStart(j) == (j - 1) * BatchSize
BatchStop(j) == j * BatchSize

\* the stop of range(1, len(data) // 1000 + 2)
RangeStop == Len(data) \div BatchSize + 2

\* one pass of: for i in range(..): texts.insert_many(data[(i-1)*1000 : i*1000])
InsertBatch ==
    /\ ipc = "inserting"
    /\ IF batch_i < RangeStop
       THEN /\ calls' = Append(calls, PySlice(data, BatchStart(batch_i), BatchStop(batch_i)))
            /\ batch_i' = batch_i + 1
            /\ UNCHANGED ipc
       ELSE /\ ipc' = "done"
            /\ UNCHANGED <<calls, batch_i>>
    /\ UNCHANGED <<X, Y, current_date, data, pvars>>

InitPipelineIdle ==
    /\ pc = "idle"
    /\ x0 = <<>> /\ y0 = <<>> /\ x = <<>> /\ y = <<>>
    /\ cx = <<>> /\ cy = <<>> /\ csrc = <<>>
    /\ bx = <<>> /\ by = <<>>
    /\ k = 0

InitImportIdle ==
    /\ ipc = "idle"
    /\ X = <<>> /\ Y = <<>>
    /\ current_date = ""
    /\ data = <<>>
    /\ batch_i = 0
    /\ calls = <<>>

InitImport ==
    /\ InitPipelineIdle
    /\ ipc = "start"
    /\ \E n \in Sizes : \E seed \in 0..MaxSeed :
         /\ X = FileX(n, seed)
         /\ Y = FileY(n, seed)
    /\ current_date = ""
    /\ data = <<>>
    /\ batch_i = 0
    /\ calls = <<>>

NextImport == LoadData \/ BuildRecords \/ InsertBatch

SpecImport == InitImport /\ [][NextImport]_vars

Init ==
    /\ pc = "start"
    /\ \E n \in 0..MaxLen :
         /\ x0 \in [1..n -> TextPool]
         /\ y0 \in [1..n -> Categories]
    /\ x = x0
    /\ y = y0
    /\ cx = <<>> /\ cy = <<>> /\ csrc = <<>>
    /\ bx = <<>> /\ by = <<>>
    /\ k = 0
    /\ InitImportIdle

Next == CleanData \/ BalanceData

Spec == Init /\ [][Next]_vars

(***************************************************************************)
(* What the properties are stated with.                                    *)
(***************************************************************************)
\* For each keyword, the texts of the pool it occurs in, in any letter case,
\* as read off the texts themselves.
HasVerkehrskontroll ==
    { "Verkehrskontrolle", "VERKEHRSKONTROLLE eingebrochen", "Verkehrskontrolle Alkohol" }
HasEingebroch == { "VERKEHRSKONTROLLE eingebrochen", "Eingebrochen Fahrrad" }
HasAlkohol == { "ALKOHOL", "Verkehrskontrolle Alkohol" }
HasDienstagmorg == { "Dienstagmorgen" }
HasFahrrad == { "Eingebrochen Fahrrad" }
\* the texts of the pool none of the five keywords occurs in
Unrelated == { "Brand", "Fahrer" }

\* the number of elements of a equal to c
Count(a, c) == Cardinality({ j \in 1..Len(a) : a[j] = c })

\* the texts clean_data returned, before the text preprocessing
RawCx == [j \in 1..Len(cx) |-> cx[j][2]]

\* the strictly increasing maps from 1..m into 1..n
Increasing(m, n) ==
    { f \in [1..m -> 1..n] : \A a, b \in 1..m : a < b => f[a] < f[b] }

\* the (text, label) pairs of two aligned arrays
Pairs(xs, ys) == [j \in 1..Len(xs) |-> <<xs[j], ys[j]>>]

IsUnrelated(p) == p[1] \in Unrelated

\* C1: balance_data leaves every category with fewer than k examples untouched:
\* its count in the output equals its count in the input.
C1_SmallCategoriesUntouched ==
    pc = "balanced" =>
        \A c \in Categories : Count(cy, c) < k => Count(by, c) = Count(cy, c)

\* C2: with k >= 0, balance_data reduces every category with more than k
\* examples to exactly k, whichever shuffle is drawn, so that no category with
\* at least k examples in the input has more than k in the output.
C2_LargeCategoriesReduced ==
    (pc = "balanced" /\ k >= 0) =>
        \A c \in Categories :
            /\ Count(cy, c) > k => Count(by, c) = k
            /\ Count(cy, c) >= k => Count(by, c) <= k

C2_Witness ==
    /\ pc = "balanced"
    /\ k >= 1
    /\ \E c \in Categories : Count(cy, c) > k /\ Count(by, c) = k

\* C3 as claimed: a record that contains "verkehrskontroll" and is labeled 5
\* has label 4 in the output of clean_data, and a record that contains
\* "eingebroch" and is labeled 4 has label 3.
C3_AsClaimed ==
    pc = "cleaned" =>
        \A j \in 1..Len(cy) :
            /\ (x0[csrc[j]] \in HasVerkehrskontroll /\ y0[csrc[j]] = 5) => cy[j] = 4
            /\ (x0[csrc[j]] \in HasEingebroch /\ y0[csrc[j]] = 4) => cy[j] = 3

\* the label the claim C3, as amended, gives the input record n
C3_Label(n) ==
    IF y0[n] = 5 /\ x0[n] \in HasVerkehrskontroll
    THEN (IF x0[n] \in HasEingebroch THEN 3 ELSE 4)
    ELSE IF y0[n] = 4 /\ x0[n] \in HasEingebroch THEN 3 ELSE y0[n]

\* C3, amended: a record labeled 5 that contains "verkehrskontroll" gets label 4
\* unless it also contains "eingebroch", and then it gets label 3; a record
\* labeled 4 that contains "eingebroch" gets label 3.  This is its label in the
\* caller's label array and, where the record is kept, in the output.
C3_Relabeled ==
    pc = "cleaned" =>
        /\ \A n \in 1..Len(x0) :
              (x0[n] \in HasVerkehrskontroll \cup HasEingebroch) => y[n] = C3_Label(n)
        /\ \A j \in 1..Len(cy) :
              (x0[csrc[j]] \in HasVerkehrskontroll \cup HasEingebroch)
                  => cy[j] = C3_Label(csrc[j])

C3_Witness ==
    /\ pc = "cleaned"
    /\ \E a, b \in 1..Len(cy) :
          /\ x0[csrc[a]] = "Verkehrskontrolle" /\ y0[csrc[a]] = 5 /\ cy[a] = 4
          /\ x0[csrc[b]] = "VERKEHRSKONTROLLE eingebrochen" /\ cy[b] = 3

\* C4: every input record that contains none of the five keywords is in the
\* output of clean_data with its original label, and these records keep their
\* input order: the unrelated pairs of the output are those of the input.
C4_UnrelatedKept ==
    pc = "cleaned" =>
        SelectSeq(Pairs(RawCx, cy), IsUnrelated) = SelectSeq(Pairs(x0, y0), IsUnrelated)

C4_Witness ==
    /\ pc = "cleaned"
    /\ \E a, b \in 1..Len(x0) :
          /\ a < b
          /\ x0[a] \in Unrelated /\ x0[b] \in Unrelated
          /\ <<x0[a], y0[a]>> # <<x0[b], y0[b]>>

\* the input records the three drop rules delete: those that contain "alkohol",
\* and those labeled 3 after the relabelings that contain "dienstagmorg" or
\* "fahrrad"
C5_Dropped ==
    { n \in 1..Len(x0) :
        \/ x0[n] \in HasAlkohol
        \/ (y[n] = 3 /\ x0[n] \in HasDienstagmorg \cup HasFahrrad) }

C6_Idempotent ==
    pc = "cleaned" =>
        /\ \A j \in 1..Len(cy) :
              /\ ~(cy[j] = 5 /\ RawCx[j] \in HasVerkehrskontroll)
              /\ ~(cy[j] = 4 /\ RawCx[j] \in HasEingebroch)
              /\ RawCx[j] \notin HasAlkohol
              /\ ~(cy[j] = 3 /\ RawCx[j] \in HasDienstagmorg \cup HasFahrrad)
        /\ LET again == CleanRules(RawCx, cy)
           IN  /\ ~again.raised
               /\ again.y = cy
               /\ again.out.x = RawCx
               /\ again.out.y = cy

C6_Witness ==
    /\ pc = "cleaned"
    /\ \E n \in 1..Len(y0) : y[n] # y0[n]
    /\ Len(cy) < Len(y0)

\* the number of records in the array files
NRecords == Len(Y)

\* C7: for N records the import issues floor(N/1000) + 1 insert calls, call c
\* carrying the records (c-1)*1000 .. c*1000-1 of the record list (numbered
\* from 0), so the last call carries N mod 1000 records.
C7_BatchCalls ==
    ipc \in { "done", "raised" } =>
        /\ Len(calls) = NRecords \div 1000 + 1
        /\ \A c \in 1..Len(calls) :
              /\ Len(calls[c]) = IF c < Len(calls) THEN 1000 ELSE NRecords % 1000
              /\ \A j \in 1..Len(calls[c]) : calls[c][j] = data[(c - 1) * 1000 + j]

\* The same for the runs that reach the insert loop, which are those with at
\* least one record.
BatchCallsOfNonEmptyInput ==
    ipc = "done" =>
        /\ NRecords >= 1
        /\ Len(calls) = NRecords \div 1000 + 1
        /\ \A c \in 1..Len(calls) :
              /\ Len(calls[c]) = IF c < Len(calls) THEN 1000 ELSE NRecords % 1000
              /\ \A j \in 1..Len(calls[c]) : calls[c][j] = data[(c - 1) * 1000 + j]

\* C8: the import builds one record per (text, label) pair, record j holding
\* text j and, as categories, the one-element sequence of the integer part of
\* label j, and all records carry the one timestamp of the run in both
\* time_created and time_modified.
C8_Records ==
    ipc \in { "inserting", "done" } =>
        /\ Len(data) = NRecords
        /\ Len(data) = Len(X)
        /\ \A j \in 1..Len(data) :
              /\ data[j].data = X[j]
              /\ data[j].data[2] = j
              /\ Len(data[j].categories) = 1
              /\ data[j].categories[1] * 10 <= Y[j]
              /\ Y[j] < data[j].categories[1] * 10 + 10
              /\ data[j].time_created = current_date
              /\ data[j].time_modified = current_date
        /\ current_date \in Timestamps

C8_Witness ==
    /\ ipc = "done"
    /\ Len(data) > 1000
    /\ \E j \in 1..Len(data) : Y[j] = 45 /\ data[j].categories = <<4>>

\* the labels the relabelings of clean_data can turn the label c into
C9_Relabelings(c) ==
    IF c = 5 THEN { 5, 4, 3 } ELSE IF c = 4 THEN { 4, 3 } ELSE { c }

\* C9: clean_data (before the text preprocessing) and balance_data keep the
\* arrays aligned: texts and labels returned have the same length and their
\* pairs are, in order, pairs of the input, the label of a pair of clean_data
\* changed at most by the relabelings 5->4 and 4->3.
C9_Aligned ==
    /\ pc \in { "cleaned", "balanced" } =>
          /\ Len(cx) = Len(cy)
          /\ \E f \in Increasing(Len(cx), Len(x0)) :
                \A j \in 1..Len(cx) :
                    /\ RawCx[j] = x0[f[j]]
                    /\ cy[j] \in C9_Relabelings(y0[f[j]])
    /\ pc = "balanced" =>
          /\ Len(bx) = Len(by)
          /\ \E g \in Increasing(Len(bx), Len(cx)) :
                \A j \in 1..Len(bx) : bx[j] = cx[g[j]] /\ by[j] = cy[g[j]]

C9_Witness ==
    /\ pc = "balanced"
    /\ Len(by) >= 1
    /\ Len(by) < Len(cy)
    /\ \E j \in 1..Len(cy) : cy[j] # y0[csrc[j]]

\* C10: after clean_data has returned, the caller's label array has its
\* original length and differs from its original contents exactly where a
\* record labeled 5 contains "verkehrskontroll" or a record labeled 4 contains
\* "eingebroch", and the caller's text array is unchanged.
C10_CallerArrays ==
    pc \in { "cleaned", "balanced" } =>
        /\ Len(y) = Len(y0)
        /\ x = x0
        /\ \A n \in 1..Len(y0) :
              (y[n] # y0[n]) <=>
                  \/ (y0[n] = 5 /\ x0[n] \in HasVerkehrskontroll)
                  \/ (y0[n] = 4 /\ x0[n] \in HasEingebroch)

C10_Witness ==
    /\ pc = "cleaned"
    /\ \E n \in 1..Len(y0) : y0[n] = 5 /\ y[n] = 3
    /\ Len(cy) < Len(y)

====
